---- MODULE Spec2Model ----
(***************************************************************************)
(* react-midi-hooks (src/index.js): the per-input listener maps, the       *)
(* dispatcher handleMIDIMessage bound to input.onmidimessage, the          *)
(* connection effect useConnectInput, and the hooks that register          *)
(* listeners on one MIDI input (useMIDIClock, useMIDIMessage,              *)
(* useMIDIControl, useMIDINote).                                           *)
(*                                                                         *)
(* One MIDI input device is modelled.  A consumer is one mounted hook      *)
(* instance; its `input` argument is either that device or absent.         *)
(* JavaScript runs every handler to completion, so every effect, cleanup   *)
(* and dispatch is one atomic action.                                      *)
(*                                                                         *)
(* Spec: hooks of every kind and the application's own callbacks register  *)
(* and unregister on the device while messages are dispatched.             *)
(* SpecClock: useMIDIClock consumers of any division, whose input comes    *)
(* and goes, under the real-time messages.                                 *)
(* SpecOutput: useMIDIOutput's three senders.                              *)
(* SpecManager: useMIDIConnectionManager.                                  *)
(* SpecReentrant: application callbacks that unsubscribe listeners while   *)
(* a message is dispatched.                                                *)
(* SpecNotes, SpecControls: one component using useMIDINote, useMIDINotes  *)
(* or useMIDIControls, with the React state of these hooks.                *)
(***************************************************************************)
EXTENDS Integers, Sequences, FiniteSets

VARIABLES
    input,      \* the enriched MIDIInput: onmidimessage and the five listener maps
    hooks,      \* per consumer: the mounted hook instance and its React state
    nextId,     \* uniqid(): the next identifier it returns
    lastMsg,    \* the message of the dispatch made by the last operation (<<>> if none)
    calls,      \* the listener invocations made by the last operation, in order
    removed,    \* the <<map, key>> pairs that a cleanup has deleted
    out,        \* useMIDIOutput: the output argument, the last call and what it did
    mgr,        \* useMIDIConnectionManager: the connections, the id, the pending effect
    trk         \* a component using useMIDINote, useMIDINotes or useMIDIControls

vars == <<input, hooks, nextId, lastMsg, calls, removed, out, mgr, trk>>

----------------------------------------------------------------------------
(* Bounds of the model *)

NumConsumers == 2       \* hook instances that can be mounted at once in Spec
MaxIds == 3             \* identifiers uniqid() hands out in one behaviour
MaxSteps == 4           \* cap on the clock closure's tick counter
MaxRuns == 4            \* cap on the count of runs of the connection manager's effect
MaxNotes == 2           \* cap on useMIDINotes' list and on the note events not yet committed
NumClocks == 1          \* useMIDIClock instances in SpecClock

Consumers == 1 .. NumConsumers
ClockConsumers == 1 .. NumClocks
Divisions == {1, 4}     \* the `division` arguments tried for useMIDIClock

(* message.data of the messages the device delivers: a status byte and,   *)
(* for a channel message, up to two data bytes.                             *)

\* control change on channels 1 and 16, note on (channel 1), note off
\* (channel 16), polyphonic aftertouch (a status with no listener map)
ChannelMessages ==
    {<<176, 7, 100>>, <<191, 7, 100>>, <<144, 7, 100>>, <<143, 7, 100>>,
     <<163, 7, 100>>}

\* channel messages cut short: the data bytes are missing
ShortMessages == {<<176, 7>>, <<144>>, <<143, 7>>}

\* real-time messages: tick, start, continue, stop, active sensing
ClockMessages == {<<248>>, <<250>>, <<251>>, <<252>>, <<254>>}

\* the messages dispatched in Spec (of the real-time messages, active
\* sensing); SpecClock dispatches ClockMessages
RegistryMessages == ChannelMessages \cup ShortMessages \cup {<<254>>}

----------------------------------------------------------------------------
(* JavaScript values *)

\* the value of reading message.data[k] past the end of the array
Undefined == -1

\* a & b on non-negative integers
RECURSIVE BitAnd(_, _)
BitAnd(a, b) ==
    IF a = 0 \/ b = 0 THEN 0
    ELSE (a % 2) * (b % 2) + 2 * BitAnd(a \div 2, b \div 2)

\* message.data[k], k counted from 0 as in the source
DataAt(message, k) == IF k + 1 <= Len(message) THEN message[k + 1] ELSE Undefined

----------------------------------------------------------------------------
(* The listener maps.  A map is a JavaScript object with string keys (the   *)
(* uniqid), enumerated by for..in in insertion order: a sequence of         *)
(* [key, fn] entries.  fn names the callback: the consumer whose hook       *)
(* registered it (0 for a callback registered by the application itself on  *)
(* the maps that enrichInputs puts on the input), whether it throws, and    *)
(* the key of its own map that it deletes when it is called (0 for none).   *)

Categories == {"messageListeners", "controlListeners", "noteOnListeners",
               "noteOffListeners", "clockListeners"}

Keys(map) == {map[i].key : i \in DOMAIN map}

\* map[key] = fn for a key that is not in the map: appended to the key order
SetKey(map, key, fn) == Append(map, [key |-> key, fn |-> fn])

\* delete map[key]; DeleteKeyNoop is a cleanup that deletes nothing
DeleteKeyNoop(map, key) == map
DeleteKey(map, key) == SelectSeq(map, LAMBDA e : e.key # key)

\* enrichInputs on a fresh MIDIInput (onmidimessage is null on a new port)
enrichInputs ==
    [onmidimessage |-> "null",
     clockListeners |-> <<>>,
     noteOnListeners |-> <<>>,
     noteOffListeners |-> <<>>,
     controlListeners |-> <<>>,
     messageListeners |-> <<>>]

----------------------------------------------------------------------------
(* handleMIDIMessage *)

\* the map the switch on `action` selects, "none" for the default branch
TypedCategory(action) ==
    CASE action = 176 -> "controlListeners"
      [] action = 144 -> "noteOnListeners"
      [] action = 128 -> "noteOffListeners"
      [] action = 240 -> "clockListeners"
      [] OTHER -> "none"

\* the arguments the listeners of a category are called with;
\* ListenerArgsSwapped passes the note listeners' data bytes in the control
\* listeners' order and the reverse
ListenerArgsSwapped(cat, message) ==
    LET leastSig == BitAnd(message[1], 15) IN
    CASE cat = "messageListeners" -> message
      [] cat = "controlListeners" -> <<DataAt(message, 1), DataAt(message, 2), leastSig + 1>>
      [] cat = "noteOnListeners" -> <<DataAt(message, 2), DataAt(message, 1), leastSig + 1>>
      [] cat = "noteOffListeners" -> <<DataAt(message, 2), DataAt(message, 1), leastSig + 1>>
      [] cat = "clockListeners" -> <<leastSig>>
ListenerArgs(cat, message) ==
    LET leastSig == BitAnd(message[1], 15) IN
    CASE cat = "messageListeners" -> message
      [] cat = "controlListeners" -> <<DataAt(message, 2), DataAt(message, 1), leastSig + 1>>
      [] cat = "noteOnListeners" -> <<DataAt(message, 1), DataAt(message, 2), leastSig + 1>>
      [] cat = "noteOffListeners" -> <<DataAt(message, 1), DataAt(message, 2), leastSig + 1>>
      [] cat = "clockListeners" -> <<leastSig>>

\* one for..in loop over a map: an invocation record per entry, in key order
LoopOver(inp, cat, message) ==
    [i \in DOMAIN inp[cat] |->
        [cat |-> cat, key |-> inp[cat][i].key, fn |-> inp[cat][i].fn,
         args |-> ListenerArgs(cat, message)]]

\* the invocations the function makes when no callback throws;
\* PlannedCallsTypedFirst runs the switch before the generic loop
PlannedCallsTypedFirst(inp, message) ==
    LET action == BitAnd(message[1], 240)
        cat == TypedCategory(action)
    IN  (IF cat = "none" THEN <<>> ELSE LoopOver(inp, cat, message))
          \o LoopOver(inp, "messageListeners", message)
PlannedCalls(inp, message) ==
    LET action == BitAnd(message[1], 240)
        cat == TypedCategory(action)
    IN  LoopOver(inp, "messageListeners", message)
          \o (IF cat = "none" THEN <<>> ELSE LoopOver(inp, cat, message))

\* for..in enumerates the live object: a key that a callback deletes before
\* the loop reaches it is not visited
RECURSIVE Visited(_, _)
Visited(planned, deleted) ==
    IF planned = <<>> THEN <<>>
    ELSE LET e == Head(planned) IN
         IF <<e.cat, e.key>> \in deleted
         THEN Visited(Tail(planned), deleted)
         ELSE <<e>> \o Visited(Tail(planned),
                               IF e.fn.deletes = 0 THEN deleted
                               ELSE deleted \cup {<<e.cat, e.fn.deletes>>})

\* there is no try/catch: the first callback that throws ends the function
FirstThrow(planned) ==
    LET T == {i \in DOMAIN planned : planned[i].fn.throws}
    IN  IF T = {} THEN 0 ELSE CHOOSE i \in T : \A j \in T : i <= j

handleMIDIMessage(inp, message) ==
    LET planned == Visited(PlannedCalls(inp, message), {})
        t == FirstThrow(planned)
    IN  IF t = 0 THEN planned ELSE SubSeq(planned, 1, t)

\* the <<map, key>> pairs that the callbacks of a dispatch deleted
Deleted(inp, log) ==
    {d \in {<<log[i].cat, log[i].fn.deletes>> : i \in DOMAIN log} : d[2] \in Keys(inp[d[1]])}

\* the input after these deletions
AfterCallbacks(inp, log) ==
    [f \in DOMAIN inp |->
        IF f \in Categories
        THEN SelectSeq(inp[f], LAMBDA e : <<f, e.key>> \notin Deleted(inp, log))
        ELSE inp[f]]

----------------------------------------------------------------------------
(* useConnectInput *)

\* the effect: binds the dispatcher unless the input is absent or already bound
Connect(inp, hasInput) ==
    IF ~hasInput THEN inp
    ELSE IF inp.onmidimessage = "null"
         THEN [inp EXCEPT !.onmidimessage = "handleMIDIMessage"]
         ELSE inp

\* the effect's cleanup: input.onmidimessage = null (a no-op for an absent input)
Disconnect(inp, hasInput) ==
    IF ~hasInput THEN inp ELSE [inp EXCEPT !.onmidimessage = "null"]

----------------------------------------------------------------------------
(* The hooks.  hooks[c].kind is the hook consumer c has mounted ("none"     *)
(* when unmounted), .input whether its input argument is the device, .id    *)
(* the uniqid of its registered listener (0 when it has none).  For         *)
(* useMIDIClock: .division, the React state .step and .isPlaying, and       *)
(* .steps, the counter in the closure of the registered clock listener.     *)

HookKinds == {"useMIDIClock", "useMIDIMessage", "useMIDIControl", "useMIDINote"}

Unmounted ==
    [kind |-> "none", input |-> FALSE, id |-> 0,
     division |-> 1, steps |-> 0, step |-> 0, isPlaying |-> FALSE]

\* the first render of a hook: useState's initial values
FirstRender(kind, hasInput, division) ==
    [kind |-> kind, input |-> hasInput, id |-> 0,
     division |-> division, steps |-> 0, step |-> 0, isPlaying |-> FALSE]

\* the maps a hook registers its listener in
MapsOf(kind) ==
    CASE kind = "useMIDIClock" -> {"clockListeners"}
      [] kind = "useMIDIMessage" -> {"messageListeners"}
      [] kind = "useMIDIControl" -> {"controlListeners"}
      [] kind = "useMIDINote" -> {"noteOnListeners", "noteOffListeners"}
      [] OTHER -> {}

\* the registering effect of consumer c's hook: input.<map>[id] = handler
Register(inp, kind, c, id) ==
    [f \in DOMAIN inp |->
        IF f \in MapsOf(kind)
        THEN SetKey(inp[f], id, [hook |-> c, throws |-> FALSE, deletes |-> 0])
        ELSE inp[f]]

\* its cleanup: delete input.<map>[id]
Unregister(inp, kind, id) ==
    [f \in DOMAIN inp |->
        IF f \in MapsOf(kind) THEN DeleteKey(inp[f], id) ELSE inp[f]]

\* the effects of a commit in which consumer c's hook gets the device as input:
\* useConnectInput's effect, then the registering effect (a new closure,
\* whose counter starts at 0)
RunEffects(c, h) ==
    /\ nextId <= MaxIds
    /\ nextId' = nextId + 1
    /\ input' = Register(Connect(input, TRUE), h.kind, c, nextId)
    /\ hooks' = [hooks EXCEPT ![c] = [h EXCEPT !.input = TRUE, !.id = nextId, !.steps = 0]]
    /\ removed' = removed

\* the cleanups of consumer c's hook, whose input is the device
RunCleanups(c, h, after) ==
    /\ input' = Unregister(Disconnect(input, TRUE), h.kind, h.id)
    /\ hooks' = [hooks EXCEPT ![c] = after]
    /\ removed' = removed \cup {<<f, h.id>> : f \in MapsOf(h.kind)}
    /\ nextId' = nextId

\* a component mounts with the hook `kind`; the consumers are numbered as
\* they mount, a new one taking the lowest free number
Mount(c, kind, hasInput, division) ==
    /\ hooks[c].kind = "none"
    /\ \A b \in DOMAIN hooks : b < c => hooks[b].kind # "none"
    /\ LET h == FirstRender(kind, hasInput, division) IN
         IF hasInput
         THEN RunEffects(c, h)
         ELSE /\ hooks' = [hooks EXCEPT ![c] = h]
              /\ UNCHANGED <<input, nextId, removed>>
    /\ lastMsg' = <<>>
    /\ UNCHANGED <<out, mgr, trk>>
    /\ calls' = <<>>

useMIDIClock(c, hasInput, division) == Mount(c, "useMIDIClock", hasInput, division)
useMIDIMessage(c, hasInput) == Mount(c, "useMIDIMessage", hasInput, 1)
useMIDIControl(c, hasInput) == Mount(c, "useMIDIControl", hasInput, 1)
useMIDINote(c, hasInput) == Mount(c, "useMIDINote", hasInput, 1)

\* a re-render in which the hook's input argument changed (the [input]
\* dependency): the old input's cleanups run, then the new input's effects
SetInput(c) ==
    /\ hooks[c].kind # "none"
    /\ IF hooks[c].input
       THEN RunCleanups(c, hooks[c], [hooks[c] EXCEPT !.input = FALSE, !.id = 0, !.steps = 0])
       ELSE RunEffects(c, hooks[c])
    /\ lastMsg' = <<>>
    /\ UNCHANGED <<out, mgr, trk>>
    /\ calls' = <<>>

\* the component unmounts: the cleanups run and the React state is dropped
Unmount(c) ==
    /\ hooks[c].kind # "none"
    /\ IF hooks[c].input
       THEN RunCleanups(c, hooks[c], Unmounted)
       ELSE /\ hooks' = [hooks EXCEPT ![c] = Unmounted]
            /\ UNCHANGED <<input, nextId, removed>>
    /\ lastMsg' = <<>>
    /\ UNCHANGED <<out, mgr, trk>>
    /\ calls' = <<>>

----------------------------------------------------------------------------
(* Callbacks the application registers itself.  enrichInputs puts the maps  *)
(* on the input object that useMIDI returns to the application, so a        *)
(* callback in a map need not come from one of the hooks, and it may throw. *)
(* The hooks' own handlers only set React state and do not throw.           *)

\* the maps the application's own callbacks are put in here: the generic map
\* and one typed map
CustomCategories == {"messageListeners", "controlListeners"}

\* input[cat][uniqid()] = a callback
AddCallback(cat, throws, deletes) ==
    /\ nextId <= MaxIds
    /\ input' = [input EXCEPT ![cat] = SetKey(@, nextId,
                        [hook |-> 0, throws |-> throws, deletes |-> deletes])]
    /\ nextId' = nextId + 1
    /\ lastMsg' = <<>>
    /\ UNCHANGED <<out, mgr, trk>>
    /\ calls' = <<>>
    /\ UNCHANGED <<hooks, removed>>

\* a callback that throws or returns
AddListener(cat, throws) == AddCallback(cat, throws, 0)

\* a callback that unsubscribes the listener with this key (its own or
\* another's) from its map and returns
AddUnsubscriber(cat, key) == AddCallback(cat, FALSE, key)

RemoveListener(cat, key) ==
    /\ \E i \in DOMAIN input[cat] : input[cat][i].key = key /\ input[cat][i].fn.hook = 0
    /\ input' = [input EXCEPT ![cat] = DeleteKey(@, key)]
    /\ removed' = removed \cup {<<cat, key>>}
    /\ lastMsg' = <<>>
    /\ UNCHANGED <<out, mgr, trk>>
    /\ calls' = <<>>
    /\ UNCHANGED <<hooks, nextId>>

----------------------------------------------------------------------------
(* useMIDIClock's listener: the function handleClockMessage() returns *)

\* variants of the listener with one slip each
handleClockMessageNoDivision(h, type) ==
    CASE type = 8 -> [h EXCEPT !.steps = h.steps + 1, !.step = h.steps + 1]
      [] type = 10 -> [h EXCEPT !.isPlaying = TRUE]
      [] type = 12 -> [h EXCEPT !.steps = 0, !.isPlaying = FALSE, !.step = 0]
      [] OTHER -> h

handleClockMessageStopKeepsCount(h, type) ==
    CASE type = 8 ->
            LET steps == h.steps + 1 IN
            [h EXCEPT !.steps = steps,
                      !.step = IF h.division = 1 THEN steps
                               ELSE IF steps % h.division = 0
                                    THEN steps \div h.division
                                    ELSE @]
      [] type = 10 -> [h EXCEPT !.isPlaying = TRUE]
      [] type = 12 -> [h EXCEPT !.isPlaying = FALSE, !.step = 0]
      [] OTHER -> h

handleClockMessageStartResets(h, type) ==
    CASE type = 8 ->
            LET steps == h.steps + 1 IN
            [h EXCEPT !.steps = steps,
                      !.step = IF h.division = 1 THEN steps
                               ELSE IF steps % h.division = 0
                                    THEN steps \div h.division
                                    ELSE @]
      [] type = 10 -> [h EXCEPT !.steps = 0, !.isPlaying = TRUE, !.step = 0]
      [] type = 12 -> [h EXCEPT !.steps = 0, !.isPlaying = FALSE, !.step = 0]
      [] OTHER -> h

handleClockMessage(h, type) ==
    CASE type = 8 ->
            LET steps == h.steps + 1 IN
            [h EXCEPT !.steps = steps,
                      !.step = IF h.division = 1 THEN steps
                               ELSE IF steps % h.division = 0
                                    THEN steps \div h.division
                                    ELSE @]
      [] type = 10 -> [h EXCEPT !.isPlaying = TRUE]
      [] type = 12 -> [h EXCEPT !.steps = 0, !.isPlaying = FALSE, !.step = 0]
      [] OTHER -> h

----------------------------------------------------------------------------
(* The device delivers a message: it calls input.onmidimessage, if bound.   *)
(* The dispatcher and every listener it reaches run to completion.          *)

\* the clock message type consumer c's listener is called with, -1 if not called
ClockCall(log, c) ==
    LET I == {i \in DOMAIN log : log[i].cat = "clockListeners" /\ log[i].fn.hook = c}
    IN  IF I = {} THEN -1 ELSE log[CHOOSE i \in I : TRUE].args[1]

Dispatch(message) ==
    /\ input.onmidimessage = "handleMIDIMessage"
    /\ LET log == handleMIDIMessage(input, message) IN
         /\ \A c \in DOMAIN hooks : ClockCall(log, c) = 8 => hooks[c].steps < MaxSteps
         /\ calls' = log
         /\ hooks' = [c \in DOMAIN hooks |->
                        IF ClockCall(log, c) >= 0
                        THEN handleClockMessage(hooks[c], ClockCall(log, c))
                        ELSE hooks[c]]
         /\ input' = AfterCallbacks(input, log)
         /\ removed' = removed \cup Deleted(input, log)
    /\ lastMsg' = message
    /\ UNCHANGED <<out, mgr, trk>>
    /\ UNCHANGED nextId

----------------------------------------------------------------------------
(* useMIDIOutput *)

\* a | b on non-negative integers
RECURSIVE BitOr(_, _)
BitOr(a, b) ==
    IF a = 0 THEN b
    ELSE IF b = 0 THEN a
    ELSE (IF a % 2 = 1 \/ b % 2 = 1 THEN 1 ELSE 0) + 2 * BitOr(a \div 2, b \div 2)

\* a parameter with a default value: an omitted (undefined) argument takes it
Default(arg, value) == IF arg = Undefined THEN value ELSE arg

\* getChannelZeroBased forgets that channels count from 1
getChannelZeroBased(channel) ==
    IF channel < 1 \/ channel > 16 THEN 0 ELSE channel
getChannel(channel) ==
    IF channel < 1 \/ channel > 16 THEN 0 ELSE channel - 1

\* the array each method passes to output.send
noteOn(note, velocity, channel) ==
    <<BitOr(144, getChannel(Default(channel, 1))), note, Default(velocity, 127)>>
noteOff(note, velocity, channel) ==
    <<BitOr(128, getChannel(Default(channel, 1))), note, Default(velocity, 127)>>
cc(value, control, channel) ==
    <<BitOr(176, getChannel(Default(channel, 1))), Default(control, 20), value>>

\* the properties of the object the hook returns
useMIDIOutput(output) == IF ~output THEN {} ELSE {"noteOn", "noteOff", "cc"}

\* no component uses the hook yet
NoOutput == [output |-> FALSE, op |-> "none", args |-> <<>>, sent |-> <<>>, error |-> FALSE]

\* the arguments tried: two notes or values, the second argument and the
\* channel given or omitted, channels inside and outside 1..16
FirstArgs == {10, 60}
SecondArgs == {Undefined, 7, 100}
ChannelArgs == {Undefined, -3, 0, 1, 3, 16, 17}

\* a render of the component: useMIDIOutput(output), output present or absent
RenderOutput(output) ==
    /\ out' = [NoOutput EXCEPT !.output = output]
    /\ UNCHANGED <<input, hooks, nextId, lastMsg, calls, removed, mgr, trk>>

\* the component calls op(a, b, channel) on the object the hook returned:
\* a property the object does not have is undefined, and calling it throws
\* a TypeError
CallOutput(op, a, b, channel) ==
    /\ out' = IF op \in useMIDIOutput(out.output)
              THEN [out EXCEPT !.op = op, !.args = <<a, b, channel>>, !.error = FALSE,
                               !.sent = CASE op = "noteOn" -> noteOn(a, b, channel)
                                          [] op = "noteOff" -> noteOff(a, b, channel)
                                          [] op = "cc" -> cc(a, b, channel)]
              ELSE [out EXCEPT !.op = op, !.args = <<a, b, channel>>, !.error = TRUE,
                               !.sent = <<>>]
    /\ UNCHANGED <<input, hooks, nextId, lastMsg, calls, removed, mgr, trk>>

----------------------------------------------------------------------------
(* useMIDIConnectionManager *)

(* mgr.connections is the hook's argument (the ids of the connections, in    *)
(* order), mgr.id the React state, mgr.pending whether the effect is due     *)
(* (a dependency, connections or id, changed in the last render).  History:  *)
(* mgr.runs counts the effect's runs since the application last changed the  *)
(* list or the selection, mgr.prev is the id selected at that moment.        *)

\* no component uses the hook yet
NoManager == [connections |-> <<>>, id |-> 0, pending |-> FALSE, runs |-> 0, prev |-> 0]

\* MIDIPort ids are non-empty strings: never the number 0 the state starts at
PortIds == {1, 2, 3}

\* the connection lists tried: up to two ports, in any order
ConnectionLists ==
    {<<>>} \cup {<<a>> : a \in PortIds}
           \cup {l \in {<<a, b>> : a \in PortIds, b \in PortIds} : l[1] # l[2]}

\* connections.findIndex((c) => c.id === id), counted from 1; 0 for "not found"
findIndex(connections, id) ==
    LET I == {i \in DOMAIN connections : connections[i] = id}
    IN  IF I = {} THEN 0 ELSE CHOOSE i \in I : \A j \in I : i <= j

\* setId(value): React renders again only if the value differs from the state,
\* and then the effect, which depends on id, is due again;
\* setIdAlwaysRenders renders again even for an equal value
setIdAlwaysRenders(m, value) == [m EXCEPT !.id = value, !.pending = TRUE]
setId(m, value) ==
    IF value = m.id THEN m ELSE [m EXCEPT !.id = value, !.pending = TRUE]

\* the hook is rendered with a connection list (a new array from useMIDI)
useMIDIConnectionManager(connections) ==
    /\ mgr' = [mgr EXCEPT !.connections = connections, !.pending = TRUE,
                          !.runs = 0, !.prev = mgr.id]
    /\ UNCHANGED <<input, hooks, nextId, lastMsg, calls, removed, out, trk>>

\* the application selects a connection with the setter the hook returns
SelectConnection(id) ==
    /\ mgr' = [setId(mgr, id) EXCEPT !.runs = 0, !.prev = id]
    /\ UNCHANGED <<input, hooks, nextId, lastMsg, calls, removed, out, trk>>

\* the effect runs
ManagerEffect ==
    /\ mgr.pending
    /\ mgr.runs < MaxRuns
    /\ LET connectionsAvaliable == Len(mgr.connections) > 0
           index == findIndex(mgr.connections, mgr.id)
           ran == [mgr EXCEPT !.pending = FALSE, !.runs = mgr.runs + 1]
       IN  mgr' = IF index = 0
                  THEN setId(ran, IF connectionsAvaliable THEN mgr.connections[1] ELSE 0)
                  ELSE ran
    /\ UNCHANGED <<input, hooks, nextId, lastMsg, calls, removed, out, trk>>

----------------------------------------------------------------------------
(* useMIDINote, useMIDIControl and the hooks derived from them, with their  *)
(* React state.  One component (the tracker) uses one of useMIDINote,       *)
(* useMIDINotes, useMIDIControls on the device.                             *)
(* trk.filter is the filter of the last render, trk.listener the filter in  *)
(* the closure of the handlers registered on the device, trk.id their       *)
(* uniqid, trk.value the state of useMIDINote / useMIDIControl.  A handler  *)
(* only calls setValue: React renders and runs the effect on [value] later, *)
(* in a commit; trk.dirty says that one is due.  trk.notes is useMIDINotes' *)
(* list, trk.controls and trk.values are useMIDIControls' watched list and  *)
(* value list.  History: trk.accepted, the note events whose handler called *)
(* setValue since the last commit.                                          *)

\* the number the tracker's handlers carry in the listener maps
Tracker == 1

\* !x for a number or undefined
Falsy(x) == x = Undefined \/ x = 0

\* the destructured filter argument; `= {}` leaves every field undefined
NoFilter == [note |-> Undefined, control |-> Undefined, channel |-> Undefined]

\* useState({}): reading any field gives undefined
EmptySlot ==
    [note |-> Undefined, on |-> "undefined", velocity |-> Undefined, channel |-> Undefined]

\* useState({ value: 0, control, channel })
InitialControl(filter) ==
    [value |-> 0, control |-> filter.control, channel |-> filter.channel]

NoTracker ==
    [kind |-> "none", filter |-> NoFilter, listener |-> NoFilter, id |-> 0,
     value |-> EmptySlot, dirty |-> FALSE, notes |-> <<>>,
     controls |-> <<>>, values |-> <<>>, accepted |-> <<>>]

\* the hook whose handlers a tracker registers
InnerKind(kind) == IF kind = "useMIDIControls" THEN "useMIDIControl" ELSE "useMIDINote"

\* the hooks whose state is derived from `value` by an effect
Derived == {"useMIDINotes", "useMIDIControls"}

\* (!note || value === note) && (!channel || channel === chan)
NotePasses(f, value, chan) ==
    (Falsy(f.note) \/ value = f.note) /\ (Falsy(f.channel) \/ f.channel = chan)

\* (!control || control === cntrl) && (!channel || channel === chan)
ControlPasses(f, cntrl, chan) ==
    (Falsy(f.control) \/ f.control = cntrl) /\ (Falsy(f.channel) \/ f.channel = chan)

\* setValue from a handler: a new object, so a render and the effect are due
setValue(t, value) ==
    [t EXCEPT !.value = value, !.dirty = t.kind \in Derived]

\* useMIDINote's handlers; `channel` in the object literal is the filter's
handleNoteMessage(t, on, args) ==
    IF NotePasses(t.listener, args[1], args[3])
    THEN [setValue(t, [note |-> args[1], on |-> on, velocity |-> args[2],
                       channel |-> t.listener.channel])
            EXCEPT !.accepted = Append(t.accepted,
                        [note |-> args[1], on |-> on, velocity |-> args[2],
                         channel |-> args[3]])]
    ELSE t
handleNoteOnMessage(t, args) == handleNoteMessage(t, "true", args)
handleNoteOffMessage(t, args) == handleNoteMessage(t, "false", args)

\* useMIDIControl's handler
handleControlMessage(t, args) ==
    IF ControlPasses(t.listener, args[2], args[3])
    THEN setValue(t, [value |-> args[1], control |-> args[2], channel |-> args[3]])
    ELSE t

\* the tracker's handler in a map
HandlerOf(cat, t, args) ==
    CASE cat = "noteOnListeners" -> handleNoteOnMessage(t, args)
      [] cat = "noteOffListeners" -> handleNoteOffMessage(t, args)
      [] cat = "controlListeners" -> handleControlMessage(t, args)
      [] OTHER -> t

\* the tracker after the invocations of a dispatch
RECURSIVE Handle(_, _)
Handle(t, log) ==
    IF log = <<>> THEN t
    ELSE Handle(IF Head(log).fn.hook = Tracker
                THEN HandlerOf(Head(log).cat, t, Head(log).args)
                ELSE t,
                Tail(log))

\* useMIDINotes' effect on [value];
\* notesEffectFirstOnly removes only the first entry of the note
notesEffectFirstOnly(notes, value) ==
    IF value.on = "true" THEN Append(notes, value)
    ELSE LET I == {i \in DOMAIN notes : notes[i].note = value.note}
             first == CHOOSE i \in I : \A j \in I : i <= j
         IN  IF I = {} THEN notes
             ELSE SubSeq(notes, 1, first - 1) \o SubSeq(notes, first + 1, Len(notes))
notesEffect(notes, value) ==
    IF value.on = "true" THEN Append(notes, value)
    ELSE SelectSeq(notes, LAMBDA n : n.note # value.note)

\* controls.indexOf(control), counted from 1; 0 for "not found"
indexOf(controls, control) ==
    LET I == {i \in DOMAIN controls : controls[i] = control}
    IN  IF I = {} THEN 0 ELSE CHOOSE i \in I : \A j \in I : i <= j

\* useMIDIControls' effect on [value];
\* controlsEffectEvery writes every slot of the control
controlsEffectEvery(controls, values, value) ==
    [i \in DOMAIN values |->
        IF i \in DOMAIN controls /\ controls[i] = value.control
        THEN value.value ELSE values[i]]
controlsEffect(controls, values, value) ==
    LET targetIndex == indexOf(controls, value.control)
    IN  IF targetIndex > 0
        THEN [i \in DOMAIN values |-> IF i = targetIndex THEN value.value ELSE values[i]]
        ELSE values

\* the first commit of a tracker: the first render, useConnectInput's effect,
\* the registering effect and the effect on [value]
MountTracker(kind, filter, controls) ==
    /\ trk.kind = "none"
    /\ nextId <= MaxIds
    /\ nextId' = nextId + 1
    /\ input' = Register(Connect(input, TRUE), InnerKind(kind), Tracker, nextId)
    /\ LET value == IF kind = "useMIDIControls" THEN InitialControl(filter) ELSE EmptySlot
           zeros == [i \in DOMAIN controls |-> 0]
       IN  trk' = [kind |-> kind, filter |-> filter, listener |-> filter, id |-> nextId,
                   value |-> value, dirty |-> FALSE,
                   notes |-> IF kind = "useMIDINotes" THEN notesEffect(<<>>, value) ELSE <<>>,
                   controls |-> controls,
                   values |-> IF kind = "useMIDIControls"
                              THEN controlsEffect(controls, zeros, value) ELSE zeros,
                   accepted |-> <<>>]
    /\ lastMsg' = <<>>
    /\ calls' = <<>>
    /\ UNCHANGED <<hooks, removed, out, mgr>>

useMIDINoteTracker(filter) == MountTracker("useMIDINote", filter, <<>>)
useMIDINotes(filter) == MountTracker("useMIDINotes", filter, <<>>)
useMIDIControls(controls, filter) == MountTracker("useMIDIControls", filter, controls)

\* the dependencies of the registering effect: [input, note] in useMIDINote,
\* [input, control, channel] in useMIDIControl
Deps(kind, filter) ==
    IF InnerKind(kind) = "useMIDIControl"
    THEN <<filter.control, filter.channel>>
    ELSE <<filter.note>>

\* the component renders the hook with another filter: the registering
\* effect's cleanup and the effect run if one of its dependencies changed
SetFilter(filter) ==
    /\ trk.kind # "none"
    /\ filter # trk.filter
    /\ IF Deps(trk.kind, filter) # Deps(trk.kind, trk.filter)
       THEN /\ nextId <= MaxIds
            /\ nextId' = nextId + 1
            /\ input' = Register(Unregister(input, InnerKind(trk.kind), trk.id),
                                 InnerKind(trk.kind), Tracker, nextId)
            /\ removed' = removed \cup {<<f, trk.id>> : f \in MapsOf(InnerKind(trk.kind))}
            /\ trk' = [trk EXCEPT !.filter = filter, !.listener = filter, !.id = nextId]
       ELSE /\ trk' = [trk EXCEPT !.filter = filter]
            /\ UNCHANGED <<input, nextId, removed>>
    /\ lastMsg' = <<>>
    /\ calls' = <<>>
    /\ UNCHANGED <<hooks, out, mgr>>

\* the device delivers a message while the tracker is mounted
DispatchTracker(message) ==
    /\ input.onmidimessage = "handleMIDIMessage"
    /\ LET log == handleMIDIMessage(input, message)
           t == Handle(trk, log)
       IN  /\ Len(t.accepted) <= MaxNotes
           /\ Len(t.notes) + Len(SelectSeq(t.accepted, LAMBDA e : e.on = "true")) <= MaxNotes
           /\ trk' = t
           /\ calls' = log
    /\ lastMsg' = message
    /\ UNCHANGED <<input, hooks, nextId, removed, out, mgr>>

\* React renders the tracker with the value last set and runs the effect on
\* [value]
Commit ==
    /\ trk.dirty
    /\ trk' = [trk EXCEPT !.dirty = FALSE, !.accepted = <<>>,
                  !.notes = IF trk.kind = "useMIDINotes"
                            THEN notesEffect(trk.notes, trk.value) ELSE @,
                  !.values = IF trk.kind = "useMIDIControls"
                             THEN controlsEffect(trk.controls, trk.values, trk.value)
                             ELSE @]
    /\ lastMsg' = <<>>
    /\ calls' = <<>>
    /\ UNCHANGED <<input, hooks, nextId, removed, out, mgr>>

\* the tracker unmounts
UnmountTracker ==
    /\ trk.kind # "none"
    /\ input' = Unregister(Disconnect(input, TRUE), InnerKind(trk.kind), trk.id)
    /\ removed' = removed \cup {<<f, trk.id>> : f \in MapsOf(InnerKind(trk.kind))}
    /\ trk' = NoTracker
    /\ lastMsg' = <<>>
    /\ calls' = <<>>
    /\ UNCHANGED <<hooks, nextId, out, mgr>>

\* the note messages dispatched in SpecNotes: NoteOn for notes 7 and 9 and on
\* channels 1 and 16, NoteOff for note 7
NoteMessages ==
    {<<144, 7, 100>>, <<159, 7, 100>>, <<144, 9, 100>>, <<128, 7, 0>>}

\* the filters a note tracker is rendered with: none, a note, a channel, and
\* the channel 0
NoteFilters ==
    {[note |-> f[1], control |-> Undefined, channel |-> f[2]] :
        f \in {<<Undefined, Undefined>>, <<7, Undefined>>, <<Undefined, 16>>,
               <<Undefined, 0>>}}

\* the control messages dispatched in SpecControls
ControlMessages ==
    {<<176, 7, 100>>, <<176, 20, 50>>, <<176, 9, 1>>, <<191, 7, 30>>}

\* the filters and watched lists useMIDIControls is rendered with
ControlFilters ==
    {[note |-> Undefined, control |-> k, channel |-> ch] :
        k \in {Undefined, 7}, ch \in {Undefined, 16}}
WatchedLists == {<<7, 20>>, <<20, 7, 7>>}

----------------------------------------------------------------------------
Init ==
    /\ input = enrichInputs
    /\ hooks = [c \in Consumers \cup ClockConsumers |-> Unmounted]
    /\ nextId = 1
    /\ lastMsg = <<>>
    /\ calls = <<>>
    /\ removed = {}
    /\ out = NoOutput
    /\ mgr = NoManager
    /\ trk = NoTracker

\* listener registration, removal and dispatch on the device, every hook kind
Next ==
    \/ \E c \in Consumers : useMIDIClock(c, TRUE, 1)
    \/ \E c \in Consumers : useMIDIMessage(c, TRUE)
    \/ \E c \in Consumers : useMIDIControl(c, TRUE)
    \/ \E c \in Consumers : useMIDINote(c, TRUE)
    \/ \E c \in Consumers : Unmount(c)
    \/ \E cat \in CustomCategories : AddListener(cat, TRUE)
    \/ \E cat \in CustomCategories, key \in 1 .. MaxIds : RemoveListener(cat, key)
    \/ \E message \in RegistryMessages : Dispatch(message)

Spec == Init /\ [][Next]_vars

\* clock consumers: any division, the input argument coming and going
NextClock ==
    \/ \E c \in ClockConsumers, hasInput \in BOOLEAN, division \in Divisions :
          useMIDIClock(c, hasInput, division)
    \/ \E c \in ClockConsumers : SetInput(c)
    \/ \E c \in ClockConsumers : Unmount(c)
    \/ \E message \in ClockMessages : Dispatch(message)

SpecClock == Init /\ [][NextClock]_vars

\* the application's callbacks unsubscribe listeners while a message is
\* dispatched
ReentrantMessages == {<<176, 7, 100>>, <<144, 7, 100>>}

NextReentrant ==
    \/ \E c \in Consumers : useMIDIMessage(c, TRUE)
    \/ \E c \in Consumers : Unmount(c)
    \/ \E cat \in CustomCategories, key \in 1 .. MaxIds : AddUnsubscriber(cat, key)
    \/ \E cat \in CustomCategories : AddListener(cat, FALSE)
    \/ \E message \in ReentrantMessages : Dispatch(message)

SpecReentrant == Init /\ [][NextReentrant]_vars

\* the output encoder: renders with the output present or absent, and calls
NextOutput ==
    \/ \E output \in BOOLEAN : RenderOutput(output)
    \/ \E op \in {"noteOn", "noteOff", "cc"}, a \in FirstArgs, b \in SecondArgs,
          channel \in ChannelArgs : CallOutput(op, a, b, channel)

SpecOutput == Init /\ [][NextOutput]_vars

\* the connection manager: the list changes, the application selects, the
\* effect runs
NextManager ==
    \/ \E connections \in ConnectionLists : useMIDIConnectionManager(connections)
    \/ \E id \in PortIds : SelectConnection(id)
    \/ ManagerEffect

SpecManager == Init /\ [][NextManager]_vars

\* a component with useMIDINote or useMIDINotes, whose filter changes, under
\* note messages; React commits at any time after a handler has set the state
NextNotes ==
    \/ \E filter \in NoteFilters : useMIDINoteTracker(filter)
    \/ \E filter \in NoteFilters : useMIDINotes(filter)
    \/ \E filter \in NoteFilters : SetFilter(filter)
    \/ \E message \in NoteMessages : DispatchTracker(message)
    \/ Commit
    \/ UnmountTracker

SpecNotes == Init /\ [][NextNotes]_vars

\* a component with useMIDIControls under control change messages
NextControls ==
    \/ \E controls \in WatchedLists, filter \in ControlFilters :
            useMIDIControls(controls, filter)
    \/ \E filter \in ControlFilters : SetFilter(filter)
    \/ \E message \in ControlMessages : DispatchTracker(message)
    \/ Commit
    \/ UnmountTracker

SpecControls == Init /\ [][NextControls]_vars

----------------------------------------------------------------------------
(* Properties *)

\* the consumers whose useConnectInput effect has run and not been cleaned up
Connected == {c \in DOMAIN hooks : hooks[c].kind # "none" /\ hooks[c].input}

\* a dispatch was the last operation
Dispatched == lastMsg # <<>>

\* the status byte's high nibble and low nibble, by arithmetic
HighNibble(message) == (message[1] \div 16) * 16
LowNibble(message) == message[1] % 16

\* the map whose listeners a message with this status is meant for
CategoryFor(message) ==
    CASE HighNibble(message) = 176 -> "controlListeners"
      [] HighNibble(message) = 144 -> "noteOnListeners"
      [] HighNibble(message) = 128 -> "noteOffListeners"
      [] HighNibble(message) = 240 -> "clockListeners"
      [] OTHER -> "none"

\* the <<map, key>> pairs invoked by the last operation
Invoked == {<<calls[i].cat, calls[i].key>> : i \in DOMAIN calls}

\* the <<map, key>> pairs registered for a message: every generic listener and
\* every listener of the message's typed category
RegisteredFor(message) ==
    {<<"messageListeners", k>> : k \in Keys(input.messageListeners)}
      \cup (IF CategoryFor(message) = "none" THEN {}
            ELSE {<<CategoryFor(message), k>> : k \in Keys(input[CategoryFor(message)])})

\* C1: the dispatcher is bound to the device exactly when at least one
\* consumer of the device is connected.
C1_BoundIffConnected ==
    (input.onmidimessage = "handleMIDIMessage") <=> (Connected # {})

\* C2: in a dispatch in which a listener throws, every listener registered
\* for the message is still invoked.
C2_ThrowDoesNotAbort ==
    (Dispatched /\ \E i \in DOMAIN calls : calls[i].fn.throws)
        => RegisteredFor(lastMsg) \subseteq Invoked

\* C3: no dispatch invokes a listener whose entry a cleanup has deleted from
\* its map (keys are never handed out twice, so a deleted key stays deleted).
C3_NoCallAfterUnsubscribe ==
    \A i \in DOMAIN calls : <<calls[i].cat, calls[i].key>> \notin removed

\* C3 witness: a dispatch invoked a listener of a map from which another
\* listener had been deleted before.
C3_Witness ==
    /\ Dispatched
    /\ \E i \in DOMAIN calls : \E r \in removed : r[1] = calls[i].cat

\* C4: a dispatch invokes every generic listener and every listener of the
\* one typed category the high nibble selects, and no other listener.
C4_Routing ==
    Dispatched => Invoked = RegisteredFor(lastMsg)

\* C5: in a dispatch the generic listeners are invoked before any typed
\* listener, and the listeners of one map in the order they were subscribed
\* (uniqid keys are handed out in increasing order).
C5_Order ==
    \A i, j \in DOMAIN calls :
        i < j =>
            /\ ~(calls[i].cat # "messageListeners" /\ calls[j].cat = "messageListeners")
            /\ (calls[i].cat = calls[j].cat => calls[i].key < calls[j].key)

\* C5 witness: a dispatch invoked two generic listeners and then a typed one.
C5_Witness ==
    /\ Dispatched
    /\ Len(calls) >= 3
    /\ calls[1].cat = "messageListeners"
    /\ calls[2].cat = "messageListeners"
    /\ calls[3].cat # "messageListeners"

\* message.data[k] as JavaScript reads it (k from 0)
Byte(message, k) == IF Len(message) > k THEN message[k + 1] ELSE Undefined

\* C6: control listeners are called with (data[2], data[1], channel), note
\* listeners with (data[1], data[2], channel), clock listeners with the low
\* nibble; channel = low nibble + 1, always in 1..16.
C6_Args ==
    \A i \in DOMAIN calls :
        LET a == calls[i].args
            ch == LowNibble(lastMsg) + 1
        IN  /\ calls[i].cat = "controlListeners" =>
                /\ lastMsg[1] \in 176 .. 191
                /\ a = <<Byte(lastMsg, 2), Byte(lastMsg, 1), ch>>
                /\ a[3] \in 1 .. 16
            /\ calls[i].cat = "noteOnListeners" =>
                /\ lastMsg[1] \in 144 .. 159
                /\ a = <<Byte(lastMsg, 1), Byte(lastMsg, 2), ch>>
                /\ a[3] \in 1 .. 16
            /\ calls[i].cat = "noteOffListeners" =>
                /\ lastMsg[1] \in 128 .. 143
                /\ a = <<Byte(lastMsg, 1), Byte(lastMsg, 2), ch>>
                /\ a[3] \in 1 .. 16
            /\ calls[i].cat = "clockListeners" =>
                /\ lastMsg[1] \in 240 .. 255
                /\ a = <<LowNibble(lastMsg)>>

\* C6 witness: a control listener was called for a three-byte control change
\* on channel 16.
C6_Witness ==
    \E i \in DOMAIN calls :
        /\ calls[i].cat = "controlListeners"
        /\ Len(lastMsg) = 3
        /\ calls[i].args = <<100, 7, 16>>

\* C7: a control change, note on or note off message of fewer than 3 bytes
\* reaches no typed listener, and no byte past its end is read.
C7_ShortIsUnknown ==
    (Dispatched /\ Len(lastMsg) < 3 /\ HighNibble(lastMsg) \in {176, 144, 128})
        => \A i \in DOMAIN calls :
              /\ calls[i].cat = "messageListeners"
              /\ \A k \in DOMAIN calls[i].args : calls[i].args[k] # Undefined

----------------------------------------------------------------------------
(* Properties of useMIDIClock, under SpecClock *)

\* consumer c's clock listener was called with `type` by the last operation
Received(log, c, type) ==
    \E i \in DOMAIN log :
        /\ log[i].cat = "clockListeners"
        /\ log[i].fn.hook = c
        /\ log[i].args = <<type>>

\* C8: a tick adds 1 to the counter; with division 1 the step becomes the
\* counter; with a larger division the step becomes counter / division when
\* the counter is a multiple of the division and is kept otherwise.
C8_Tick ==
    [][\A c \in DOMAIN hooks :
          Received(calls', c, 8) =>
              LET d == hooks[c].division
                  n == hooks'[c].steps
              IN  /\ n = hooks[c].steps + 1
                  /\ d = 1 => hooks'[c].step = n
                  /\ (d > 1 /\ n % d = 0) => hooks'[c].step = n \div d
                  /\ (d > 1 /\ n % d # 0) => hooks'[c].step = hooks[c].step
                  /\ hooks'[c].isPlaying = hooks[c].isPlaying]_vars

\* C8 witness: with division 4 the fourth tick has made the step 1.
C8_Witness ==
    \E c \in DOMAIN hooks :
        /\ Received(calls, c, 8)
        /\ hooks[c].division = 4
        /\ hooks[c].steps = 4
        /\ hooks[c].step = 1

\* C9: a stop sets the counter and the step to 0 and isPlaying to false; the
\* tick that follows a stop makes the counter 1 (and with division 1 the
\* step 1).
C9_Stop ==
    [][\A c \in DOMAIN hooks :
          /\ Received(calls', c, 12) =>
                /\ hooks'[c].steps = 0
                /\ hooks'[c].step = 0
                /\ hooks'[c].isPlaying = FALSE
          /\ (Received(calls, c, 12) /\ Received(calls', c, 8)) =>
                /\ hooks'[c].steps = 1
                /\ hooks[c].division = 1 => hooks'[c].step = 1]_vars

\* C9 witness: a stop has been handled and the consumer is reset.
C9_Witness ==
    \E c \in DOMAIN hooks :
        /\ Received(calls, c, 12)
        /\ hooks[c].steps = 0
        /\ hooks[c].step = 0
        /\ ~hooks[c].isPlaying

\* C10: a start sets isPlaying and leaves the counter and the step alone; a
\* continue, or any type other than tick, start and stop, changes nothing.
C10_StartAndOthers ==
    [][\A c \in DOMAIN hooks :
          /\ Received(calls', c, 10) =>
                /\ hooks'[c].isPlaying = TRUE
                /\ hooks'[c].steps = hooks[c].steps
                /\ hooks'[c].step = hooks[c].step
          /\ (\E type \in (0 .. 15) \ {8, 10, 12} : Received(calls', c, type)) =>
                hooks'[c] = hooks[c]]_vars

\* C10 witness: a start was handled after ticks had been counted.
C10_Witness ==
    \E c \in DOMAIN hooks :
        /\ Received(calls, c, 10)
        /\ hooks[c].isPlaying
        /\ hooks[c].steps >= 2
        /\ hooks[c].step >= 2

\* C19: for every clock consumer with a registered listener, the step equals
\* the listener's counter divided by the division, rounded down.
C19_StepIsQuotient ==
    \A c \in DOMAIN hooks :
        (hooks[c].kind = "useMIDIClock" /\ hooks[c].input)
            => hooks[c].step = hooks[c].steps \div hooks[c].division

----------------------------------------------------------------------------
(* Properties of useMIDIOutput, under SpecOutput *)

\* the status byte and the two data bytes a call is meant to send
ExpectedBytes(op, args) ==
    LET ch == IF args[3] = Undefined THEN 1 ELSE args[3]
        e == IF 1 <= ch /\ ch <= 16 THEN ch - 1 ELSE 0
    IN  CASE op = "noteOn" ->
                <<144 + e, args[1], IF args[2] = Undefined THEN 127 ELSE args[2]>>
          [] op = "noteOff" ->
                <<128 + e, args[1], IF args[2] = Undefined THEN 127 ELSE args[2]>>
          [] op = "cc" ->
                <<176 + e, IF args[2] = Undefined THEN 20 ELSE args[2], args[1]>>

\* C15: with an output bound, noteOn, noteOff and cc send [0x90 | e, note,
\* velocity], [0x80 | e, note, velocity] and [0xB0 | e, control, value], with
\* e = channel - 1 for channel in 1..16 and 0 otherwise, and the defaults
\* velocity 127, control 0x14, channel 1.
C15_Encoding ==
    (out.op # "none" /\ out.output)
        => /\ ~out.error
           /\ out.sent = ExpectedBytes(out.op, out.args)
           /\ Len(out.sent) = 3

\* C15 witness: noteOn(60, channel 3) has sent [0x92, 60, 127], the channel
\* after the velocity left to its default.
C15_Witness ==
    /\ out.output
    /\ out.op = "noteOn"
    /\ out.args = <<60, Undefined, 3>>
    /\ out.sent = <<146, 60, 127>>

\* C16: with no output bound a call raises no error and sends nothing.
C16_AbsentOutputNoop ==
    (out.op # "none" /\ ~out.output) => (~out.error /\ out.sent = <<>>)

----------------------------------------------------------------------------
(* Properties of useMIDIConnectionManager, under SpecManager *)

\* the id the hook is meant to settle at: the selected one if it is in the
\* list, else the first connection, else 0
SettledId ==
    IF \E i \in DOMAIN mgr.connections : mgr.connections[i] = mgr.prev
    THEN mgr.prev
    ELSE IF mgr.connections # <<>> THEN mgr.connections[1] ELSE 0

C20_WitnessEmpty ==
    /\ ~mgr.pending
    /\ mgr.connections = <<>>
    /\ mgr.prev # 0
    /\ mgr.id = 0

----------------------------------------------------------------------------
(* Properties of useMIDINote and useMIDINotes, under SpecNotes *)

\* the event a note message carries: NoteOn for status 0x9n, NoteOff for 0x8n
NoteEvent(message) ==
    [note |-> message[2],
     on |-> IF HighNibble(message) = 144 THEN "true" ELSE "false",
     velocity |-> message[3],
     channel |-> LowNibble(message) + 1]

\* the last operation dispatched a note message to a mounted note tracker
NoteDispatched ==
    /\ Dispatched
    /\ trk.kind \in {"useMIDINote", "useMIDINotes"}
    /\ HighNibble(lastMsg) \in {128, 144}

\* a filter matches an event: an absent or zero field matches any value
Matches(filter, event) ==
    /\ (filter.note \in {Undefined, 0} \/ filter.note = event.note)
    /\ (filter.channel \in {Undefined, 0} \/ filter.channel = event.channel)

\* C13: after a note event that passes the filter of the registered listener,
\* the slot is the event's tuple: its note, velocity, channel and on.
C13_SlotIsEvent ==
    (NoteDispatched /\ Matches(trk.listener, NoteEvent(lastMsg)))
        => trk.value = NoteEvent(lastMsg)

\* C18: the slot changes only in a dispatch of a note event that matches the
\* filter of the component's last render.
C18_CurrentFilter ==
    [][(trk'.kind = trk.kind /\ trk'.value # trk.value)
            => Matches(trk.filter, NoteEvent(lastMsg'))]_vars

\* a commit of useMIDINotes: the effect on [value] runs
NotesCommit == trk.kind = "useMIDINotes" /\ trk.dirty /\ ~trk'.dirty /\ trk'.kind = trk.kind

\* C11: when the effect has run on a NoteOff value for note n, the list has
\* no entry with note n.
C11_NoteOffRemoves ==
    [][(NotesCommit /\ trk.value.on = "false")
            => \A i \in DOMAIN trk'.notes : trk'.notes[i].note # trk.value.note]_vars

\* C11 witness: a NoteOff for note 7 has been processed and the list is left
\* with an entry for note 9.
C11_Witness ==
    /\ trk.kind = "useMIDINotes"
    /\ ~trk.dirty
    /\ trk.value.on = "false"
    /\ trk.value.note = 7
    /\ Len(trk.notes) = 1
    /\ trk.notes[1].note = 9

\* the note and velocity of the entries of a list
NoteAndVelocity(list) ==
    [i \in DOMAIN list |-> <<list[i].note, list[i].velocity>>]

\* C12: a commit after accepted NoteOn events appends one entry per event, in
\* order, and keeps the entries already in the list.
C12_EveryNoteOnAppended ==
    [][(NotesCommit /\ \A i \in DOMAIN trk.accepted : trk.accepted[i].on = "true")
            => NoteAndVelocity(trk'.notes)
                 = NoteAndVelocity(trk.notes) \o NoteAndVelocity(trk.accepted)]_vars

----------------------------------------------------------------------------
(* Properties of useMIDIControls, under SpecControls *)

\* a commit of useMIDIControls: the effect on [value] runs
ControlsCommit ==
    trk.kind = "useMIDIControls" /\ trk.dirty /\ ~trk'.dirty /\ trk'.kind = trk.kind

\* the list has the length of the watched list; it starts as all zeros
LengthAndStart ==
    /\ trk.kind = "useMIDIControls" => Len(trk.values) = Len(trk.controls)
    /\ (trk.kind = "none" /\ trk'.kind = "useMIDIControls")
            => \A i \in DOMAIN trk'.values : trk'.values[i] = 0

\* C14: a value whose control is C[i] overwrites slot i and leaves every
\* other slot; a value whose control is not in C leaves the list; the list
\* has the length of C and starts as all zeros.
C14_SlotOverwritten ==
    [][/\ LengthAndStart
       /\ ControlsCommit =>
            /\ \A i \in DOMAIN trk.controls :
                 trk.controls[i] = trk.value.control =>
                    /\ trk'.values[i] = trk.value.value
                    /\ \A j \in DOMAIN trk.values \ {i} : trk'.values[j] = trk.values[j]
            /\ (\A i \in DOMAIN trk.controls : trk.controls[i] # trk.value.control)
                    => trk'.values = trk.values]_vars

\* C14 (amended): the same for the first i with C[i] = the value's control.
C14_FirstSlotOverwritten ==
    [][/\ LengthAndStart
       /\ ControlsCommit =>
            /\ \A i \in DOMAIN trk.controls :
                 (/\ trk.controls[i] = trk.value.control
                  /\ \A k \in 1 .. i - 1 : trk.controls[k] # trk.value.control) =>
                    /\ trk'.values[i] = trk.value.value
                    /\ \A j \in DOMAIN trk.values \ {i} : trk'.values[j] = trk.values[j]
            /\ (\A i \in DOMAIN trk.controls : trk.controls[i] # trk.value.control)
                    => trk'.values = trk.values]_vars

\* C14 witness: with control 7 watched twice, a value for it has been
\* committed to its first slot after a value for control 20.
C14_Witness ==
    /\ trk.kind = "useMIDIControls"
    /\ ~trk.dirty
    /\ trk.controls = <<20, 7, 7>>
    /\ trk.value.control = 7
    /\ trk.values = <<50, 100, 0>>

----------------------------------------------------------------------------
(* Properties of a dispatch whose callbacks unsubscribe, under SpecReentrant *)

\* how often a dispatch invoked the listener under a key of a map
Invocations(log, pair) ==
    Cardinality({i \in DOMAIN log : <<log[i].cat, log[i].key>> = pair})

\* C17: every listener registered for the message when the dispatch starts
\* is invoked exactly once, whatever the callbacks unsubscribe meanwhile.
C17_StableSnapshot ==
    [][lastMsg' # <<>> =>
          \A pair \in RegisteredFor(lastMsg') : Invocations(calls', pair) = 1]_vars

====
